---- MODULE Spec2Model ----
(***************************************************************************)
(* Model of compose/compose.go: the docker-compose.yml generator for a     *)
(* dgraph cluster.  One run of main() is a sequence of steps: flag         *)
(* parsing, the sanity checks, the two service loops, the document, the    *)
(* serialisation and the writes to the destination.  Strings are TLA+      *)
(* strings and are built the way the Sprintf calls build them.             *)
(***************************************************************************)
EXTENDS Integers, Sequences, FiniteSets, TLC

VARIABLES
    args,       \* os.Args: the argument vector of the current run
    uid,        \* the Uid user.Current() reports to the current run
    infConv,    \* what int(+Inf) / int(NaN) yields on the build's platform
    pc,         \* position of main()
    opts,       \* the package-level Options value
    services,   \* map name -> Service
    cfg,        \* the ComposeConfig
    yml,        \* result of yaml.Marshal(cfg)
    dest,       \* "stdout", "file" or "none": what `out` writes to
    stdout,     \* bytes written to standard output, as a sequence of chunks
    file,       \* "absent" or the chunks the created file holds
    fileOpen,   \* TRUE while the created file is not closed
    buf,        \* chunks held by the bufio.Writer
    bufErr,     \* the sticky error of the bufio.Writer
    ioFailed,   \* some write, flush or close of this run returned an error
    exitCode,   \* -1 while running, else the process exit status
    prev        \* the previous completed run: its options and output

vars == <<args, uid, infConv, pc, opts, services, cfg, yml, dest, stdout,
          file, fileOpen, buf, bufErr, ioFailed, exitCode, prev>>

-----------------------------------------------------------------------------
(* Bounds of the model *)

\* number of flags given on a command line
MaxArgs == 2

-----------------------------------------------------------------------------
(* Program constants *)

zeroBasePort == 5080
alphaBasePort == 7080
\* largest accepted node count of the sanity checks
MaxNodes == 99
\* smallest accepted LRU cache size
MinLruMB == 1024
\* alpha port shift of --test_ports
TestPortShift == 100
\* distance between the two host ports a service exposes
HttpPortShift == 1000

-----------------------------------------------------------------------------
(* Strings: decimal formatting and parsing as fmt's %d and strconv do them *)

Digits == <<"0", "1", "2", "3", "4", "5", "6", "7", "8", "9">>

RECURSIVE FormatNat(_)
FormatNat(n) ==
    IF n < 10 THEN Digits[n + 1]
    ELSE FormatNat(n \div 10) \o Digits[(n % 10) + 1]

\* fmt's %d verb
FormatInt(n) == IF n < 0 THEN "-" \o FormatNat(0 - n) ELSE FormatNat(n)

DigitVal(c) == CHOOSE d \in 0..9 : Digits[d + 1] = c

IsDigit(c) == \E d \in 1..10 : Digits[d] = c

RECURSIVE AllDigits(_)
AllDigits(s) == IF s = "" THEN TRUE ELSE IsDigit(Head(s)) /\ AllDigits(Tail(s))

RECURSIVE ParseNat(_, _)
ParseNat(s, acc) ==
    IF s = "" THEN acc ELSE ParseNat(Tail(s), acc * 10 + DigitVal(Head(s)))

\* strconv.ParseInt on decimal text: is the text an integer, and which
IsInt(s) ==
    IF s = "" THEN FALSE
    ELSE IF Head(s) = "-" THEN Tail(s) # "" /\ AllDigits(Tail(s))
    ELSE AllDigits(s)

ParseInt(s) == IF Head(s) = "-" THEN 0 - ParseNat(Tail(s), 0) ELSE ParseNat(s, 0)

\* strconv.ParseBool
TrueWords == {"1", "t", "T", "TRUE", "true", "True"}
FalseWords == {"0", "f", "F", "FALSE", "false", "False"}

\* strings.Index: position of the first occurrence of t in s, 0 if none
IndexOf(s, t) ==
    LET hits == {k \in 1..(Len(s) - Len(t) + 1) : SubSeq(s, k, k + Len(t) - 1) = t}
    IN  IF hits = {} THEN 0 ELSE CHOOSE k \in hits : \A m \in hits : k <= m

Contains(s, t) ==
    \E k \in 1..(Len(s) - Len(t) + 1) : SubSeq(s, k, k + Len(t) - 1) = t

\* the text of s after its first n characters
Drop(s, n) == SubSeq(s, n + 1, Len(s))

-----------------------------------------------------------------------------
(* Options and the flag table of main() *)

\* the value of opts before flags are parsed: the defaults of the flag table
DefaultOpts ==
    [NumZeros |-> 3, NumAlphas |-> 3, NumGroups |-> 1, LruSizeMB |-> 1024,
     EnterpriseMode |-> FALSE, AclSecret |-> "", DataDir |-> "",
     DataVol |-> FALSE, TempFS |-> FALSE, UserOwnership |-> FALSE,
     Jaeger |-> FALSE, TestPortRange |-> TRUE, Verbosity |-> 2,
     OutFile |-> "./docker-compose.yml"]

\* the flags registered on the command: long name, shorthand, field, kind
FlagDefs ==
    { [name |-> "num_zeros",  short |-> "z", field |-> "NumZeros",       kind |-> "int"],
      [name |-> "num_alphas", short |-> "a", field |-> "NumAlphas",      kind |-> "int"],
      [name |-> "num_groups", short |-> "g", field |-> "NumGroups",      kind |-> "int"],
      [name |-> "lru_mb",     short |-> "",  field |-> "LruSizeMB",      kind |-> "int"],
      [name |-> "data_vol",   short |-> "o", field |-> "DataVol",        kind |-> "bool"],
      [name |-> "data_dir",   short |-> "d", field |-> "DataDir",        kind |-> "string"],
      [name |-> "enterprise", short |-> "e", field |-> "EnterpriseMode", kind |-> "bool"],
      [name |-> "acl_secret", short |-> "",  field |-> "AclSecret",      kind |-> "string"],
      [name |-> "user",       short |-> "u", field |-> "UserOwnership",  kind |-> "bool"],
      [name |-> "tmpfs",      short |-> "",  field |-> "TempFS",         kind |-> "bool"],
      [name |-> "jaeger",     short |-> "j", field |-> "Jaeger",         kind |-> "bool"],
      [name |-> "test_ports", short |-> "",  field |-> "TestPortRange",  kind |-> "bool"],
      [name |-> "verbosity",  short |-> "v", field |-> "Verbosity",      kind |-> "int"],
      [name |-> "out",        short |-> "O", field |-> "OutFile",        kind |-> "string"] }

\* Flag.Value.Set: store the text of a value in the flag's field
SetFlag(st, f, value, rest) ==
    CASE f.kind = "int" ->
            IF IsInt(value)
            THEN [opts |-> [st.opts EXCEPT ![f.field] = ParseInt(value)],
                  err |-> "none", rest |-> rest]
            ELSE [st EXCEPT !.err = "error"]
      [] f.kind = "bool" ->
            IF value \in TrueWords \cup FalseWords
            THEN [opts |-> [st.opts EXCEPT ![f.field] = (value \in TrueWords)],
                  err |-> "none", rest |-> rest]
            ELSE [st EXCEPT !.err = "error"]
      [] OTHER ->
            [opts |-> [st.opts EXCEPT ![f.field] = value], err |-> "none", rest |-> rest]

\* FlagSet.parseLongArg: s is the argument, rest the arguments after it
ParseLongArg(st, s, rest) ==
    LET body == Drop(s, 2)
        eq   == IndexOf(body, "=")
        nm   == IF eq > 0 THEN SubSeq(body, 1, eq - 1) ELSE body
        fs   == {f \in FlagDefs : f.name = nm}
    IN  IF body = "" \/ Head(body) = "-" \/ Head(body) = "="
        THEN [st EXCEPT !.err = "error"]
        ELSE IF fs = {}
        THEN [st EXCEPT !.err = IF nm = "help" THEN "help" ELSE "error"]
        ELSE LET f == CHOOSE f \in fs : TRUE
             IN  IF eq > 0 THEN SetFlag(st, f, Drop(body, eq), rest)
                 ELSE IF f.kind = "bool" THEN SetFlag(st, f, "true", rest)
                 ELSE IF rest # <<>> THEN SetFlag(st, f, Head(rest), Tail(rest))
                 ELSE [st EXCEPT !.err = "error"]

\* FlagSet.parseShortArg: sh is the argument without its dash
RECURSIVE ParseShortArg(_, _, _)
ParseShortArg(st, sh, rest) ==
    IF sh = "" THEN [st EXCEPT !.rest = rest]
    ELSE LET c  == Head(sh)
             fs == {f \in FlagDefs : f.short = c}
         IN  IF fs = {}
             THEN [st EXCEPT !.err = IF c = "h" THEN "help" ELSE "error"]
             ELSE LET f == CHOOSE f \in fs : TRUE
                  IN  IF Len(sh) > 2 /\ SubSeq(sh, 2, 2) = "="
                      THEN SetFlag(st, f, Drop(sh, 2), rest)
                      ELSE IF f.kind = "bool"
                      THEN LET nx == SetFlag(st, f, "true", rest)
                           IN  IF nx.err # "none" THEN nx
                               ELSE ParseShortArg(nx, Tail(sh), rest)
                      ELSE IF Len(sh) > 1 THEN SetFlag(st, f, Tail(sh), rest)
                      ELSE IF rest # <<>> THEN SetFlag(st, f, Head(rest), Tail(rest))
                      ELSE [st EXCEPT !.err = "error"]

\* FlagSet.parseArgs: st.rest is what is left to read
RECURSIVE ParseArgs(_)
ParseArgs(st) ==
    IF st.err # "none" \/ st.rest = <<>> THEN st
    ELSE LET s    == Head(st.rest)
             rest == Tail(st.rest)
         IN  IF Len(s) < 2 \/ Head(s) # "-"
             THEN ParseArgs([st EXCEPT !.rest = rest])
             ELSE IF SubSeq(s, 2, 2) = "-"
             THEN IF Len(s) = 2 THEN [st EXCEPT !.rest = <<>>]
                  ELSE ParseArgs(ParseLongArg(st, s, rest))
             ELSE ParseArgs(ParseShortArg(st, Tail(s), rest))

\* cmd.ParseFlags(os.Args): the options and the error ("none", "help", "error")
ParseFlags(argv) == ParseArgs([opts |-> DefaultOpts, err |-> "none", rest |-> argv])

-----------------------------------------------------------------------------
(* The command lines of the model *)

\* the flags a command line is made of, each with its value
ArgPool ==
    << <<"--num_zeros=0">>, <<"-z", "1">>, <<"-z99">>,
       <<"-a", "100">>, <<"--num_alphas", "99">>,
       <<"-g", "2">>, <<"--num_groups=0">>, <<"-g", "-1">>,
       <<"--lru_mb=1023">>, <<"-o">>, <<"-d", "/data">>,
       <<"-e">>, <<"--enterprise">>, <<"--acl_secret=/secret">>, <<"-u">>,
       <<"--tmpfs">>, <<"-j">>, <<"--test_ports=false">>, <<"-O", "-">>,
       <<"--help">>, <<"--bogus">> >>

RECURSIVE Flatten(_, _)
Flatten(S, k) ==
    IF k > Len(ArgPool) THEN <<>>
    ELSE (IF k \in S THEN ArgPool[k] ELSE <<>>) \o Flatten(S, k + 1)

\* the sets of at most k positions of the pool
RECURSIVE Choices(_)
Choices(k) ==
    IF k = 0 THEN {{}}
    ELSE LET P == Choices(k - 1)
         IN  P \cup {T \cup {x} : T \in P, x \in 1..Len(ArgPool)}

\* every command line of at most MaxArgs flags of the pool, in pool order
ArgVectors == { <<"compose">> \o Flatten(S, 1) : S \in Choices(MaxArgs) }

\* what ParseFlags makes of each command line of the model
Parsed == [argv \in ArgVectors |-> ParseFlags(argv)]

\* the command lines that parse without error, each with its options
Resolved ==
    {<<argv, ParseFlags(argv).opts>> : argv \in {w \in ArgVectors : ParseFlags(w).err = "none"}}

\* the command lines that resolve to the same options as argv
SameOptions ==
    [argv \in ArgVectors |->
        LET o == ParseFlags(argv).opts
        IN  {r[1] : r \in {q \in Resolved : q[2] = o}}]

\* the uids the operating system may report for the current user
Uids == {"0", "1000"}

\* the results int() may give for a float it cannot represent (+Inf):
\* the most negative and the most positive value, at the model's int width
InfConvs == {0 - 2147483647, 2147483647}

-----------------------------------------------------------------------------
(* The topology builder *)

\* name with the index cut to its last digit
nameLastDigit(prefix, idx) == prefix \o FormatInt(idx % 10)

name(prefix, idx) == prefix \o FormatInt(idx)

toExposedPort(p) == FormatInt(p) \o ":" \o FormatInt(p)

Volume(type, source, target, readOnly) ==
    [Type |-> type, Source |-> source, Target |-> target, ReadOnly |-> readOnly]

\* DataVolumes without the named-volume case
DataVolumesBindOnly(o) ==
    IF o.DataDir # "" THEN << Volume("bind", o.DataDir, "/data", FALSE) >> ELSE <<>>

\* the volume initService adds for /data: a sequence of at most one volume
DataVolumes(o) ==
    IF o.DataVol THEN << Volume("volume", "data", "/data", FALSE) >>
    ELSE IF o.DataDir # "" THEN << Volume("bind", o.DataDir, "/data", FALSE) >>
    ELSE <<>>

\* initService under options o, with u the Uid of the current user
initService(o, u, basename, idx, grpcPort) ==
    LET nm == name(basename, idx)
    IN  [name          |-> nm,
         Image         |-> "dgraph/dgraph:latest",
         ContainerName |-> nm,
         WorkingDir    |-> IF o.UserOwnership THEN "/working/" \o nm
                           ELSE "/data/" \o nm,
         DependsOn     |-> IF idx > 1 THEN << name(basename, idx - 1) >> ELSE <<>>,
         Labels        |-> { <<"cluster", "test">> },
         Environment   |-> <<>>,
         Ports         |-> << toExposedPort(grpcPort),
                              toExposedPort(grpcPort + HttpPortShift) >>,
         Volumes       |-> << Volume("bind", "$GOPATH/bin", "/gobin", TRUE) >>
                              \o DataVolumes(o),
         TempFS        |-> <<>>,
         User          |-> IF o.UserOwnership THEN "${UID:-" \o u \o "}" ELSE "",
         Command       |-> "/gobin/dgraph"
                           \o (IF o.UserOwnership THEN " --cwd=/data/" \o nm ELSE "")
                           \o (IF o.Jaeger
                               THEN " --jaeger.collector=http://jaeger:14268" ELSE "")]

\* getOffset with its test inverted
getOffsetInverted(idx) == IF idx = 1 THEN idx ELSE 0

\* getOffset without the special case of the first instance
getOffsetPlain(idx) == idx

getOffset(idx) == IF idx = 1 THEN 0 ELSE idx

\* math.Ceil of the quotient a / g of two ints, g # 0.  The float64 quotient
\* of ints of this size rounds to an integer only when a / g is one.
CeilDiv(a, g) ==
    IF g > 0 THEN 0 - ((0 - a) \div g) ELSE 0 - (a \div (0 - g))

\* int(math.Ceil(float64(NumAlphas) / float64(NumGroups))); conv is what the
\* conversion of a float outside int's range yields
Replicas(o, conv) ==
    IF o.NumGroups = 0 THEN conv ELSE CeilDiv(o.NumAlphas, o.NumGroups)

getZero(o, u, conv, idx) ==
    LET basename == "zero"
        grpcPort == zeroBasePort + getOffset(idx)
        svc      == initService(o, u, basename, idx, grpcPort)
    IN  [svc EXCEPT
           !.TempFS  = IF o.TempFS THEN << "/data/" \o svc.name \o "/zw" >> ELSE <<>>,
           !.Command = svc.Command
               \o " zero -o " \o FormatInt(idx - 1) \o " --idx=" \o FormatInt(idx)
               \o " --my=" \o svc.name \o ":" \o FormatInt(grpcPort)
               \o " --replicas=" \o FormatInt(Replicas(o, conv))
               \o " --logtostderr -v=" \o FormatInt(o.Verbosity)
               \o (IF idx = 1 THEN " --bindall"
                   ELSE " --peer=" \o name(basename, 1) \o ":" \o FormatInt(zeroBasePort))]

getAlpha(o, u, idx) ==
    LET baseOffset   == IF o.TestPortRange THEN TestPortShift ELSE 0
        basename     == "alpha"
        internalPort == alphaBasePort + baseOffset + getOffset(idx)
        grpcPort     == internalPort + HttpPortShift
        svc          == initService(o, u, basename, idx, grpcPort)
        acl          == o.EnterpriseMode /\ o.AclSecret # ""
    IN  [svc EXCEPT
           !.TempFS  = IF o.TempFS THEN << "/data/" \o svc.name \o "/w" >> ELSE <<>>,
           !.Command = svc.Command
               \o " alpha -o " \o FormatInt(baseOffset + idx - 1)
               \o " --my=" \o svc.name \o ":" \o FormatInt(internalPort)
               \o " --lru_mb=" \o FormatInt(o.LruSizeMB)
               \o " --zero=zero1:" \o FormatInt(zeroBasePort)
               \o " --logtostderr -v=" \o FormatInt(o.Verbosity)
               \o " --whitelist=10.0.0.0/8,172.16.0.0/12,192.168.0.0/16"
               \o (IF o.EnterpriseMode THEN " --enterprise_features" ELSE "")
               \o (IF acl THEN " --acl_secret_file=/secret/hmac --acl_access_ttl 10s"
                   ELSE ""),
           !.Volumes = svc.Volumes
               \o (IF acl THEN << Volume("bind", o.AclSecret, "/secret/hmac", TRUE) >>
                   ELSE <<>>)]

getJaeger ==
    [name          |-> "",
     Image         |-> "jaegertracing/all-in-one:latest",
     ContainerName |-> "jaeger",
     WorkingDir    |-> "/working/jaeger",
     DependsOn     |-> <<>>,
     Labels        |-> {},
     Environment   |-> << "COLLECTOR_ZIPKIN_HTTP_PORT=9411" >>,
     Ports         |-> << toExposedPort(16686) >>,
     Volumes       |-> <<>>,
     TempFS        |-> <<>>,
     User          |-> "",
     Command       |-> "--memory.max-traces=1000000"]

\* m[key] = svc on a Go map
Put(m, key, svc) ==
    [k \in (DOMAIN m) \cup {key} |-> IF k = key THEN svc ELSE m[k]]

\* the map m after `for i := 1; i <= n; i++ { m[made[i].name] = made[i] }`:
\* each key holds the service of the last pass that stored under it
StoreAll(m, made) ==
    LET n       == Len(made)
        keys    == {made[j].name : j \in 1..n}
        last(k) == CHOOSE j \in 1..n :
                      made[j].name = k /\ \A h \in (j + 1)..n : made[h].name # k
    IN  [k \in (DOMAIN m) \cup keys |-> IF k \in keys THEN made[last(k)] ELSE m[k]]

\* for i := 1; i <= NumZeros; i++ { svc := getZero(i); m[svc.name] = svc }
ZeroServices(m, o, u, conv) ==
    StoreAll(m, [j \in 1..o.NumZeros |-> getZero(o, u, conv, j)] \o <<>>)

\* for i := 1; i <= NumAlphas; i++ { svc := getAlpha(i); m[svc.name] = svc }
AlphaServices(m, o, u) ==
    StoreAll(m, [j \in 1..o.NumAlphas |-> getAlpha(o, u, j)] \o <<>>)

\* the empty Go map
EmptyMap == [k \in {} |-> {}]

\* yaml.Marshal of a Service: the exported fields; the omitempty ones only
\* when set
MarshalService(svc) ==
    [image |-> svc.Image, container_name |-> svc.ContainerName,
     working_dir |-> svc.WorkingDir, labels |-> svc.Labels,
     environment |-> svc.Environment, ports |-> svc.Ports,
     volumes |-> svc.Volumes, command |-> svc.Command,
     omitempty |-> (IF svc.DependsOn # <<>> THEN {<<"depends_on", svc.DependsOn>>} ELSE {})
                   \cup (IF svc.TempFS # <<>> THEN {<<"tempfs", svc.TempFS>>} ELSE {})
                   \cup (IF svc.User # "" THEN {<<"user", svc.User>>} ELSE {})]

\* yaml.Marshal(cfg): the document, its maps in the order of their keys
Marshal(c) ==
    [version  |-> c.Version,
     services |-> [k \in DOMAIN c.Services |-> MarshalService(c.Services[k])],
     volumes  |-> c.Volumes]

-----------------------------------------------------------------------------
(* main() *)

\* the state of a process that has registered its flags, started with argv
Start(argv) ==
    /\ args = argv
    /\ uid = ""
    /\ infConv = 0
    /\ pc = "parse"
    /\ opts = DefaultOpts
    /\ services = EmptyMap
    /\ cfg = <<>>
    /\ yml = <<>>
    /\ dest = "none"
    /\ stdout = <<>>
    /\ fileOpen = FALSE
    /\ buf = <<>>
    /\ bufErr = FALSE
    /\ ioFailed = FALSE
    /\ exitCode = 0 - 1

Init ==
    /\ \E argv \in ArgVectors : Start(argv)
    /\ file = "absent"
    /\ prev = <<>>

\* os.Exit(code)
Exit(code) ==
    /\ pc' = "exit"
    /\ exitCode' = code

\* fatal that exits with status 0
fatalExitZero == Exit(0)

\* fatal(err): the message goes to stderr, the process exits 1
fatal == Exit(1)

\* x.CheckfNoTrace(err) with err # nil: the error is logged, the process exits 1
CheckfNoTrace == Exit(1)

Built == <<services, cfg, yml>>
Output == <<dest, stdout, file, fileOpen, buf, bufErr, ioFailed>>
Env == <<args, uid, infConv, prev>>

\* err := cmd.ParseFlags(os.Args) and the handling of err
ParseStep ==
    /\ pc = "parse"
    /\ LET r == ParseFlags(args)
       IN  /\ opts' = r.opts
           /\ \/ r.err = "help" /\ Exit(0)
              \/ r.err = "error" /\ fatal
              \/ r.err = "none" /\ pc' = "checkZeros" /\ UNCHANGED exitCode
    /\ UNCHANGED <<Built, Output, Env>>

CheckZeros ==
    /\ pc = "checkZeros"
    /\ \/ (opts.NumZeros < 1 \/ opts.NumZeros > MaxNodes) /\ fatal
       \/ ~(opts.NumZeros < 1 \/ opts.NumZeros > MaxNodes)
            /\ pc' = "checkAlphas" /\ UNCHANGED exitCode
    /\ UNCHANGED <<opts, Built, Output, Env>>

CheckAlphas ==
    /\ pc = "checkAlphas"
    /\ \/ (opts.NumAlphas < 1 \/ opts.NumAlphas > MaxNodes) /\ fatal
       \/ ~(opts.NumAlphas < 1 \/ opts.NumAlphas > MaxNodes)
            /\ pc' = "checkLru" /\ UNCHANGED exitCode
    /\ UNCHANGED <<opts, Built, Output, Env>>

CheckLru ==
    /\ pc = "checkLru"
    /\ \/ opts.LruSizeMB < MinLruMB /\ fatal
       \/ ~(opts.LruSizeMB < MinLruMB) /\ pc' = "checkAcl" /\ UNCHANGED exitCode
    /\ UNCHANGED <<opts, Built, Output, Env>>

\* CheckAcl that warns and leaves enterprise mode as it is
CheckAclWarnOnly ==
    /\ pc = "checkAcl"
    /\ pc' = "checkVol"
    /\ UNCHANGED <<opts, exitCode, Built, Output, Env>>

\* the ACL secret turns enterprise mode on, with a warning
CheckAcl ==
    /\ pc = "checkAcl"
    /\ \/ (opts.AclSecret # "" /\ ~opts.EnterpriseMode)
            /\ opts' = [opts EXCEPT !.EnterpriseMode = TRUE]
       \/ ~(opts.AclSecret # "" /\ ~opts.EnterpriseMode) /\ UNCHANGED opts
    /\ pc' = "checkVol"
    /\ UNCHANGED <<exitCode, Built, Output, Env>>

\* CheckVol that lets both volume flags through
CheckVolNoReject ==
    /\ pc = "checkVol"
    /\ pc' = "checkUser"
    /\ UNCHANGED <<opts, exitCode, Built, Output, Env>>

CheckVol ==
    /\ pc = "checkVol"
    /\ \/ (opts.DataVol /\ opts.DataDir # "") /\ fatal
       \/ ~(opts.DataVol /\ opts.DataDir # "")
            /\ pc' = "checkUser" /\ UNCHANGED exitCode
    /\ UNCHANGED <<opts, Built, Output, Env>>

CheckUser ==
    /\ pc = "checkUser"
    /\ \/ (opts.UserOwnership /\ opts.DataDir = "") /\ fatal
       \/ ~(opts.UserOwnership /\ opts.DataDir = "")
            /\ pc' = "zeros" /\ UNCHANGED exitCode
    /\ UNCHANGED <<opts, Built, Output, Env>>

\* user.Current() fails in the first initService: the run is aborted
UserLookupFail ==
    /\ pc = "zeros"
    /\ opts.UserOwnership
    /\ CheckfNoTrace
    /\ UNCHANGED <<opts, Built, Output, Env>>

\* the loop over the zeros; the first pass looks the current user up and
\* converts the replica count
ZeroLoop ==
    /\ pc = "zeros"
    /\ \E u \in (IF opts.UserOwnership THEN Uids ELSE {uid}),
          c \in (IF opts.NumGroups = 0 /\ infConv = 0 THEN InfConvs ELSE {infConv}) :
            /\ uid' = u
            /\ infConv' = c
            /\ services' = ZeroServices(services, opts, u, c)
    /\ pc' = "alphas"
    /\ UNCHANGED <<opts, cfg, yml, Output, exitCode, args, prev>>

\* the loop over the alphas
AlphaLoop ==
    /\ pc = "alphas"
    /\ services' = AlphaServices(services, opts, uid)
    /\ pc' = "config"
    /\ UNCHANGED <<opts, cfg, yml, Output, exitCode, Env>>

\* the ComposeConfig and its data volume
MakeConfig ==
    /\ pc = "config"
    /\ cfg' = [Version |-> "3.5", Services |-> services,
               Volumes |-> IF opts.DataVol THEN [v \in {"data"} |-> {}] ELSE EmptyMap]
    /\ pc' = "jaeger"
    /\ UNCHANGED <<opts, services, yml, Output, exitCode, Env>>

\* services["jaeger"] = getJaeger(); cfg.Services is the same map as services
AddJaeger ==
    /\ pc = "jaeger"
    /\ \/ opts.Jaeger
            /\ services' = Put(services, "jaeger", getJaeger)
            /\ cfg' = [cfg EXCEPT !.Services = Put(services, "jaeger", getJaeger)]
       \/ ~opts.Jaeger /\ UNCHANGED <<services, cfg>>
    /\ pc' = "marshal"
    /\ UNCHANGED <<opts, yml, Output, exitCode, Env>>

MarshalStep ==
    /\ pc = "marshal"
    /\ yml' = Marshal(cfg)
    /\ pc' = "open"
    /\ UNCHANGED <<opts, services, cfg, Output, exitCode, Env>>

\* out = os.Stdout
OpenStdout ==
    /\ pc = "open"
    /\ opts.OutFile = "-"
    /\ dest' = "stdout"
    /\ pc' = "header"
    /\ UNCHANGED <<opts, Built, stdout, file, fileOpen, buf, bufErr, ioFailed,
                   exitCode, Env>>

\* OpenFile that opens an existing file for appending instead of truncating it
OpenFileAppend ==
    /\ pc = "open"
    /\ opts.OutFile # "-"
    /\ \/ /\ file' = IF file = "absent" THEN <<>> ELSE file
          /\ fileOpen' = TRUE
          /\ dest' = "file"
          /\ pc' = "header"
          /\ UNCHANGED exitCode
       \/ /\ fatal
          /\ UNCHANGED <<file, fileOpen, dest>>
    /\ UNCHANGED <<opts, Built, stdout, buf, bufErr, ioFailed, Env>>

\* os.Create(opts.OutFile) and the bufio.Writer on the file
OpenFile ==
    /\ pc = "open"
    /\ opts.OutFile # "-"
    /\ \/ /\ file' = <<>>
          /\ fileOpen' = TRUE
          /\ dest' = "file"
          /\ pc' = "header"
          /\ UNCHANGED exitCode
       \/ /\ fatal
          /\ UNCHANGED <<file, fileOpen, dest>>
    /\ UNCHANGED <<opts, Built, stdout, buf, bufErr, ioFailed, Env>>

\* fmt.Fprintf(out, ...) of one chunk, its error discarded.  On standard
\* output the chunk is written or the write fails; on the bufio.Writer the
\* chunk is buffered unless the writer has failed, or fails while draining.
Fprintf(chunk) ==
    \/ /\ dest = "stdout"
       /\ \/ stdout' = Append(stdout, chunk) /\ UNCHANGED ioFailed
          \/ ioFailed' = TRUE /\ UNCHANGED stdout
       /\ UNCHANGED <<buf, bufErr>>
    \/ /\ dest = "file"
       /\ \/ ~bufErr /\ buf' = Append(buf, chunk) /\ UNCHANGED <<bufErr, ioFailed>>
          \/ ~bufErr /\ bufErr' = TRUE /\ ioFailed' = TRUE /\ UNCHANGED buf
          \/ bufErr /\ ioFailed' = TRUE /\ UNCHANGED <<buf, bufErr>>
       /\ UNCHANGED stdout

\* the provenance comment
WriteHeader ==
    /\ pc = "header"
    /\ Fprintf(<<"# Auto-generated with: ", args, "\n#\n">>)
    /\ pc' = "body"
    /\ UNCHANGED <<opts, Built, dest, file, fileOpen, exitCode, Env>>

\* the document; main returns after it
WriteBody ==
    /\ pc = "body"
    /\ Fprintf(<<yml>>)
    /\ \/ dest = "stdout" /\ Exit(0)
       \/ dest = "file" /\ pc' = "flush" /\ UNCHANGED exitCode
    /\ UNCHANGED <<opts, Built, dest, file, fileOpen, Env>>

\* the deferred x.Ignore(buf.Flush())
Flush ==
    /\ pc = "flush"
    /\ \/ ~bufErr /\ file' = file \o buf /\ buf' = <<>>
            /\ UNCHANGED <<bufErr, ioFailed>>
       \/ ~bufErr /\ bufErr' = TRUE /\ ioFailed' = TRUE /\ UNCHANGED <<file, buf>>
       \/ bufErr /\ ioFailed' = TRUE /\ UNCHANGED <<file, buf, bufErr>>
    /\ pc' = "close"
    /\ UNCHANGED <<opts, Built, dest, stdout, fileOpen, exitCode, Env>>

\* the deferred x.Ignore(file.Close()); the process then exits 0
Close ==
    /\ pc = "close"
    /\ fileOpen' = FALSE
    /\ \/ UNCHANGED ioFailed
       \/ ioFailed' = TRUE
    /\ Exit(0)
    /\ UNCHANGED <<opts, Built, dest, stdout, file, buf, bufErr, Env>>

\* what a finished run has written to its destination
Written == IF dest = "stdout" THEN stdout ELSE file

\* the program is run again, with arguments that resolve to the options of
\* the run that has just written its document without a failed write
Rerun ==
    /\ pc = "exit" /\ exitCode = 0 /\ dest # "none" /\ ~ioFailed
    /\ \E argv \in SameOptions[args] : args' = argv
    /\ prev' = << [args |-> args, uid |-> uid, opts |-> opts, out |-> Written] >>
    /\ uid' = ""
    /\ infConv' = infConv
    /\ pc' = "parse"
    /\ opts' = DefaultOpts
    /\ services' = EmptyMap
    /\ cfg' = <<>>
    /\ yml' = <<>>
    /\ dest' = "none"
    /\ stdout' = <<>>
    /\ fileOpen' = FALSE
    /\ buf' = <<>>
    /\ bufErr' = FALSE
    /\ ioFailed' = FALSE
    /\ exitCode' = 0 - 1
    /\ UNCHANGED file

Next ==
    \/ ParseStep
    \/ CheckZeros
    \/ CheckAlphas
    \/ CheckLru
    \/ CheckAcl
    \/ CheckVol
    \/ CheckUser
    \/ UserLookupFail
    \/ ZeroLoop
    \/ AlphaLoop
    \/ MakeConfig
    \/ AddJaeger
    \/ MarshalStep
    \/ OpenStdout
    \/ OpenFile
    \/ WriteHeader
    \/ WriteBody
    \/ Flush
    \/ Close
    \/ Rerun

Spec == Init /\ [][Next]_vars

-----------------------------------------------------------------------------
(* Reading a built document *)

\* the text that follows flag in command line cmd, up to the next space
FlagValue(cmd, flag) ==
    LET at   == IndexOf(cmd, " " \o flag)
        rest == Drop(cmd, at + Len(flag))
        sp   == IndexOf(rest, " ")
    IN  IF sp = 0 THEN rest ELSE SubSeq(rest, 1, sp - 1)

HasFlag(cmd, flag) == Contains(cmd, " " \o flag)

\* the port of an address host:port
AddrPort(addr) == ParseInt(Drop(addr, IndexOf(addr, ":")))

\* the host port of a port pair "p:p"
HostPort(pair) == ParseInt(SubSeq(pair, 1, IndexOf(pair, ":") - 1))

\* the ports a record claims: the one it advertises and those it exposes
PortsOf(svc) ==
    {AddrPort(FlagValue(svc.Command, "--my="))}
        \cup {HostPort(svc.Ports[k]) : k \in 1..Len(svc.Ports)}

Range(seq) == {seq[k] : k \in 1..Len(seq)}

ZeroNames == {"zero" \o FormatInt(j) : j \in 1..opts.NumZeros}
AlphaNames == {"alpha" \o FormatInt(j) : j \in 1..opts.NumAlphas}

\* the document is built and not yet serialised
DocumentBuilt == pc = "marshal"

\* the options the command line resolves to fail a sanity check
Rejected(o) ==
    \/ o.NumZeros < 1 \/ o.NumZeros > 99
    \/ o.NumAlphas < 1 \/ o.NumAlphas > 99
    \/ o.LruSizeMB < 1024
    \/ (o.DataVol /\ o.DataDir # "")
    \/ (o.UserOwnership /\ o.DataDir = "")

Checking ==
    pc \in {"parse", "checkZeros", "checkAlphas", "checkLru", "checkAcl",
            "checkVol", "checkUser"}

-----------------------------------------------------------------------------
(* Properties *)

\* C1: a built document holds exactly NumZeros records zero1..zero<NumZeros>
\* and NumAlphas records alpha1..alpha<NumAlphas>, each stored under its own
\* name, and a record jaeger exactly when tracing is on; the service map has
\* as many entries as insertions were made, so none overwrote another.
C1_RecordCount ==
    DocumentBuilt =>
        LET S == cfg.Services
        IN  /\ opts.NumZeros \in 1..99 /\ opts.NumAlphas \in 1..99
            /\ DOMAIN S = ZeroNames \cup AlphaNames
                            \cup (IF opts.Jaeger THEN {"jaeger"} ELSE {})
            /\ Cardinality(ZeroNames) = opts.NumZeros
            /\ Cardinality(AlphaNames) = opts.NumAlphas
            /\ Cardinality(DOMAIN S) =
                 opts.NumZeros + opts.NumAlphas + (IF opts.Jaeger THEN 1 ELSE 0)
            /\ \A k \in ZeroNames :
                 S[k].name = k /\ S[k].ContainerName = k /\ HasFlag(S[k].Command, "zero ")
            /\ \A k \in AlphaNames :
                 S[k].name = k /\ S[k].ContainerName = k /\ HasFlag(S[k].Command, "alpha ")
            /\ "jaeger" \in DOMAIN S => S["jaeger"].ContainerName = "jaeger"

C1_Witness ==
    /\ DocumentBuilt
    /\ opts.NumZeros = 99 /\ opts.NumAlphas = 99
    /\ Cardinality(DOMAIN cfg.Services) = 198

\* the (port, owner) pairs of the records stored under the names K
PortOwners(K) == UNION { {<<p, k>> : p \in PortsOf(cfg.Services[k])} : k \in K }

\* no port belongs to two records of K
PortsInjective(K) ==
    LET owners == PortOwners(K)
    IN  Cardinality({po[1] : po \in owners}) = Cardinality(owners)

\* C2: in a built document no two zeros share a port and no two alphas share
\* a port, counting the port of --my and both exposed host ports, which are
\* 1000 apart.
C2_PortsInjective ==
    DocumentBuilt =>
        /\ PortsInjective(ZeroNames)
        /\ PortsInjective(AlphaNames)
        /\ \A k \in ZeroNames \cup AlphaNames :
             LET P == cfg.Services[k].Ports
             IN  Len(P) = 2 /\ HostPort(P[2]) = HostPort(P[1]) + 1000

C2_Witness ==
    /\ DocumentBuilt
    /\ opts.NumAlphas = 99 /\ ~opts.TestPortRange
    /\ Cardinality(PortOwners(AlphaNames)) = 3 * 99

\* C4: with an ACL secret every alpha runs with --enterprise_features and
\* --acl_secret_file=/secret/hmac and mounts the secret read-only at
\* /secret/hmac, whether or not --enterprise was given; without a secret no
\* alpha has the secret flag or the secret mount.
C4_AclSecret ==
    DocumentBuilt =>
        \A k \in AlphaNames :
            LET svc == cfg.Services[k]
            IN  IF Parsed[args].opts.AclSecret # ""
                THEN /\ HasFlag(svc.Command, "--enterprise_features")
                     /\ HasFlag(svc.Command, "--acl_secret_file=/secret/hmac")
                     /\ Volume("bind", Parsed[args].opts.AclSecret, "/secret/hmac", TRUE)
                          \in Range(svc.Volumes)
                ELSE /\ ~HasFlag(svc.Command, "--acl_secret_file")
                     /\ \A v \in Range(svc.Volumes) : v.Target # "/secret/hmac"

C4_Witness ==
    /\ DocumentBuilt
    /\ Parsed[args].opts.AclSecret # ""
    /\ ~Parsed[args].opts.EnterpriseMode
    /\ HasFlag(cfg.Services["alpha1"].Command, "--enterprise_features")

\* C7: in a built document zero1 is the only record with --bindall and has
\* no --peer; every other zero has --peer=zero1:5080; every alpha has
\* --zero=zero1:5080; and zero1:5080 is what zero1 advertises with --my.
C7_Membership ==
    DocumentBuilt =>
        LET S == cfg.Services
        IN  /\ HasFlag(S["zero1"].Command, "--bindall")
            /\ ~HasFlag(S["zero1"].Command, "--peer")
            /\ FlagValue(S["zero1"].Command, "--my=") = "zero1:5080"
            /\ \A k \in (DOMAIN S) \ {"zero1"} : ~HasFlag(S[k].Command, "--bindall")
            /\ \A k \in ZeroNames \ {"zero1"} :
                 FlagValue(S[k].Command, "--peer=") = "zero1:5080"
            /\ \A k \in AlphaNames : FlagValue(S[k].Command, "--zero=") = "zero1:5080"

C7_Witness ==
    /\ DocumentBuilt
    /\ opts.NumZeros > 1
    /\ HasFlag(cfg.Services["zero2"].Command, "--peer=zero1:5080")
    /\ opts.Jaeger

\* C9: in a built document every zero and alpha mounts $GOPATH/bin read-only
\* at /gobin and has at most one mount at /data: the named volume data
\* exactly with --data_vol, a bind mount of the host directory exactly with
\* --data_dir; and the document declares the volume data exactly when some
\* record mounts it.
C9_Volumes ==
    DocumentBuilt =>
        LET S       == cfg.Services
            atData(k) == {n \in 1..Len(S[k].Volumes) : S[k].Volumes[n].Target = "/data"}
            named(k)  == Volume("volume", "data", "/data", FALSE) \in Range(S[k].Volumes)
            bound(k)  == Volume("bind", opts.DataDir, "/data", FALSE) \in Range(S[k].Volumes)
        IN  /\ \A k \in ZeroNames \cup AlphaNames :
                 /\ Volume("bind", "$GOPATH/bin", "/gobin", TRUE) \in Range(S[k].Volumes)
                 /\ Cardinality(atData(k)) <= 1
                 /\ named(k) <=> opts.DataVol
                 /\ bound(k) <=> opts.DataDir # ""
                 /\ ~(named(k) /\ bound(k))
            /\ ("data" \in DOMAIN cfg.Volumes) <=>
                 \E k \in DOMAIN S : \E v \in Range(S[k].Volumes) :
                    v.Type = "volume" /\ v.Source = "data"

C9_Witness ==
    /\ DocumentBuilt
    /\ opts.DataVol
    /\ "data" \in DOMAIN cfg.Volumes
    /\ Len(cfg.Services["alpha1"].Volumes) = 2

\* C3: a command line that parses is rejected exactly when its options fail
\* a sanity check; a rejected run exits 1 with no service built and the
\* destination neither opened nor written; any other run gets to the
\* builder, where only the lookup of the current user (made for --user) can
\* still end it before the first service is stored.
C3_Validation ==
    (Parsed[args].err = "none" /\ ~Checking) =>
        IF Rejected(Parsed[args].opts)
        THEN /\ pc = "exit" /\ exitCode = 1
             /\ services = EmptyMap /\ cfg = <<>> /\ yml = <<>>
             /\ dest = "none" /\ ~fileOpen /\ stdout = <<>> /\ buf = <<>>
             /\ file = "absent"
        ELSE (pc = "exit" /\ services = EmptyMap) => opts.UserOwnership

C3_Witness ==
    /\ pc = "exit" /\ exitCode = 1
    /\ Parsed[args].err = "none"
    /\ opts.DataVol /\ opts.DataDir # ""
    /\ services = EmptyMap /\ dest = "none"

\* C5 as stated: the run exits 0 only on success, and not when a write of
\* the comment or of the document, the flush or the close has failed.
C5_ExitNonzeroOnAnyFailure ==
    (pc = "exit" /\ ioFailed) => exitCode # 0

\* C5 as amended: the run exits 1 on a flag error, a failed sanity check
\* and a failed open of the output file; it exits 0 on help and whenever
\* the destination was opened: a failed write, flush or close does not
\* change the status, which is then 0.
C5_ExitCodes ==
    pc = "exit" =>
        /\ exitCode \in {0, 1}
        /\ Parsed[args].err = "help" => exitCode = 0
        /\ dest # "none" => exitCode = 0
        /\ Parsed[args].err = "error" => exitCode = 1
        /\ (Parsed[args].err = "none" /\ Rejected(Parsed[args].opts)) => exitCode = 1
        /\ (yml # <<>> /\ dest = "none") => exitCode = 1
        /\ ioFailed => exitCode = 0

C5_Witness ==
    /\ pc = "exit" /\ exitCode = 0
    /\ dest = "file" /\ ioFailed /\ file = <<>>

\* two consecutive runs that both wrote their document without a failed write
TwoRuns ==
    /\ prev # <<>>
    /\ pc = "exit" /\ exitCode = 0 /\ dest # "none" /\ ~ioFailed

\* C6 as stated: two runs whose resolved options are equal write the same
\* bytes, however the arguments were spelled and whoever runs the program.
C6_SameOptionsSameBytes ==
    (TwoRuns /\ prev[1].opts = opts) => Written = prev[1].out

\* C6 as amended: two runs with the same argument vector, by a user with the
\* same uid, whose writes all succeed, write the same bytes.
C6_SameArgsSameBytes ==
    (TwoRuns /\ prev[1].args = args /\ prev[1].uid = uid) => Written = prev[1].out

C6_Witness ==
    /\ TwoRuns
    /\ prev[1].args = args /\ prev[1].uid = uid
    /\ opts.UserOwnership
    /\ dest = "file" /\ Len(file) = 2 /\ Written = prev[1].out

\* C8: in a built document the --replicas of every zero is the positive r
\* with (r-1) * NumGroups < NumAlphas <= r * NumGroups, so 1 <= r <= NumAlphas.
C8_ReplicasCeiling ==
    DocumentBuilt =>
        \A k \in ZeroNames :
            LET r == ParseInt(FlagValue(cfg.Services[k].Command, "--replicas="))
            IN  /\ r >= 1 /\ r <= opts.NumAlphas
                /\ (r - 1) * opts.NumGroups < opts.NumAlphas
                /\ opts.NumAlphas <= r * opts.NumGroups

\* C10: in a built document the port of every zero's and alpha's --my is the
\* base port of its role plus the offset the same command passes with -o.
C10_AdvertisedPort ==
    DocumentBuilt =>
        /\ \A k \in ZeroNames :
             LET c == cfg.Services[k].Command
             IN  AddrPort(FlagValue(c, "--my=")) = 5080 + ParseInt(FlagValue(c, "-o "))
        /\ \A k \in AlphaNames :
             LET c == cfg.Services[k].Command
             IN  AddrPort(FlagValue(c, "--my=")) = 7080 + ParseInt(FlagValue(c, "-o "))

====
